---------------------------- MODULE Spec2Model ----------------------------
(***************************************************************************)
(* Model of the OpenAI-compatible request handler of LocalAI               *)
(* (api/openai.go) and of its profile store (api/config.go).               *)
(*                                                                         *)
(* Conventions.  Floating point parameters (top_p, temperature,            *)
(* repeat_penalty) are carried as integers in tenths.  Prompts, samples,   *)
(* cut-string patterns and trim prefixes are sequences of one-character    *)
(* strings, so that concatenation, prefix stripping and match removal are  *)
(* computed.  Model identifiers, profile names and stop values are strings.*)
(* A Go slice that is appended to (Config.StopWords) is a header           *)
(* [arr, len, cap] into the variable heap, so that two headers over one    *)
(* backing array share its slots as they do in Go.                         *)
(***************************************************************************)
EXTENDS Integers, Sequences, FiniteSets, TLC

(***************************************************************************)
(* Bounds of the model.                                                    *)
(***************************************************************************)
\* number of requests received in a behaviour
MaxRequests == 2
\* largest sample count a request asks for
MaxSamples == 2
\* number of load operations in a behaviour of the load specification
MaxLoads == 3

(***************************************************************************)
(* Requests and profiles.                                                  *)
(***************************************************************************)
\* type OpenAIRequest: the zero value (openai.go 54-82)
ZeroRequest ==
    [Model |-> "", Prompt |-> <<>>, Stop |-> "", Messages |-> <<>>,
     Echo |-> FALSE, TopP |-> 0, TopK |-> 0, Temperature |-> 0,
     Maxtokens |-> 0, N |-> 0, Batch |-> 0, F16 |-> FALSE,
     IgnoreEOS |-> FALSE, RepeatPenalty |-> 0, Keep |-> 0, Seed |-> 0]

\* a nil slice
NilSlice == [arr |-> 0, len |-> 0, cap |-> 0]

\* type TemplateConfig: the zero value
ZeroTemplate == [Completion |-> "", Chat |-> ""]

\* a nil map[string]string (reading a nil map yields the zero value)
NilRoles == << >>

\* type Config: the zero value (config.go 13-27).  The embedded
\* OpenAIRequest is the field OpenAIRequest; the outer F16 shadows the
\* embedded one, so config.F16 in the Go code is the outer field.  Path and
\* Debug are never read by the handler and are left out.
ZeroConfig ==
    [OpenAIRequest |-> ZeroRequest, Name |-> "", StopWords |-> NilSlice,
     Cutstrings |-> <<>>, TrimSpace |-> <<>>, ContextSize |-> 0,
     F16 |-> FALSE, Threads |-> 0, Roles |-> NilRoles,
     TemplateConfig |-> ZeroTemplate]

\* defaultRequest (openai.go 84-92): top_p 0.7, temperature 0.9 in tenths
defaultRequest(modelFile) ==
    [ZeroRequest EXCEPT !.TopP = 7, !.TopK = 80, !.Maxtokens = 512,
                        !.Temperature = 9, !.Model = modelFile]

(***************************************************************************)
(* Slices over the heap of backing arrays.                                 *)
(***************************************************************************)
\* the elements a slice header denotes
SliceSeq(hp, s) == [k \in 1..s.len |-> hp[s.arr][k]]

\* the capacity Go's append gives a grown slice of small capacity
GrownCap(c) == IF c = 0 THEN 1 ELSE 2 * c

\* append(s, x) with the new backing array, if one is needed, placed at
\* fresh: the pair <<header, heap>>.  With spare capacity the element is
\* written into the shared backing array.
AppendSlice(hp, s, x, fresh) ==
    IF s.len < s.cap
    THEN << [s EXCEPT !.len = s.len + 1],
            [hp EXCEPT ![s.arr][s.len + 1] = x] >>
    ELSE LET c == GrownCap(s.cap)
             a == [k \in 1..c |-> IF k <= s.len THEN hp[s.arr][k]
                                  ELSE IF k = s.len + 1 THEN x ELSE ""]
         IN << [arr |-> fresh, len |-> s.len + 1, cap |-> c],
               [k \in (DOMAIN hp) \cup {fresh} |-> IF k = fresh THEN a ELSE hp[k]] >>


(***************************************************************************)
(* The model directory: YAML files as the decoder sees them.               *)
(***************************************************************************)
\* a YAML null in a sequence of strings
NULL == "~"

\* yaml.Unmarshal of a sequence into []string (config.go 46, 59): the
\* backing array is made with one slot per node, a null node is skipped,
\* and the slice is cut to the nodes kept, so a null leaves spare capacity.
\* The pair <<header, backing array>>; no array for an empty sequence.
DecodeStrings(nodes, fresh) ==
    LET kept == SelectSeq(nodes, LAMBDA x : x # NULL)
    IN  IF Len(nodes) = 0
        THEN << NilSlice, <<>> >>
        ELSE << [arr |-> fresh, len |-> Len(kept), cap |-> Len(nodes)],
                [k \in 1..Len(nodes) |-> IF k <= Len(kept) THEN kept[k] ELSE ""] >>

\* a profile as written in a file: a Config whose StopWords is the node list
YamlProfile(name, model, stops) ==
    [ZeroConfig EXCEPT !.Name = name, !.OpenAIRequest.Model = model,
                       !.StopWords = stops]

\* a profile that sets every generation parameter and every list
FullProfile(name, model, stops) ==
    [YamlProfile(name, model, stops) EXCEPT
        !.OpenAIRequest.Echo = TRUE, !.OpenAIRequest.TopP = 5,
        !.OpenAIRequest.TopK = 40, !.OpenAIRequest.Temperature = 2,
        !.OpenAIRequest.Maxtokens = 100, !.OpenAIRequest.Batch = 8,
        !.OpenAIRequest.IgnoreEOS = TRUE, !.OpenAIRequest.RepeatPenalty = 11,
        !.OpenAIRequest.Keep = 3, !.OpenAIRequest.Seed = 7,
        !.F16 = TRUE, !.ContextSize = 1024, !.Threads = 2,
        !.Cutstrings = << <<"a">> >>, !.TrimSpace = << <<"b">> >>,
        !.Roles = (<< "u" >> :> << "U" >>),
        !.TemplateConfig = [Completion |-> "ct", Chat |-> "ch"]]

\* file contents.  kind: "absent"; "unreadable" (os.Stat succeeds and
\* os.ReadFile fails: a directory, no permission); "malformed" (not YAML);
\* "doc".  Of a document, top is what its top-level keys decode to as a
\* Config and configs what its key "configs" decodes to as a ConfigFile;
\* keys a target struct does not name are ignored by the decoder.
NoKeys == YamlProfile("", "", <<>>)
Absent == [kind |-> "absent", top |-> NoKeys, configs |-> <<>>]
Unreadable == [kind |-> "unreadable", top |-> NoKeys, configs |-> <<>>]
Malformed == [kind |-> "malformed", top |-> NoKeys, configs |-> <<>>]
Single(y) == [kind |-> "doc", top |-> y, configs |-> <<>>]
Multi(ys) == [kind |-> "doc", top |-> NoKeys, configs |-> ys]

\* the file names of the model directory in the order os.ReadDir lists
\* them (sorted); a name is a base and its suffixes
FileOrder == << <<"cfg", ".yaml">>, <<"m1", ".bin">>, <<"m1", ".yaml">>,
                <<"m2", ".yaml">> >>
FileNames == {FileOrder[k] : k \in 1..Len(FileOrder)}

\* filepath.Join(loader.ModelPath, modelFile+".yaml") (openai.go 181)
ModelConfigName(modelFile) == << modelFile, ".yaml" >>

\* strings.Contains(file.Name(), ".yaml") (config.go 96)
HasYamlMarker(name) == \E k \in 1..Len(name) : name[k] = ".yaml"

\* the content at a name; a name the directory does not hold is absent
FileAt(fs, name) == IF name \in DOMAIN fs THEN fs[name] ELSE Absent

\* os.Stat(modelConfig) succeeds (openai.go 182)
StatOK(fs, name) == FileAt(fs, name).kind # "absent"

\* ReadConfig / ReadConfigFile return no error (config.go 40-64)
ReadOK(fs, name) == FileAt(fs, name).kind = "doc"

(***************************************************************************)
(* The profile store (type ConfigMerger) and its load operations.  A store *)
(* is a function from the names present to Configs.                        *)
(***************************************************************************)
EmptyStore == << >>

\* the least array id the heap does not use
FreshArr(hp) ==
    CHOOSE k \in 1..(Cardinality(DOMAIN hp) + 1) :
        k \notin DOMAIN hp /\ \A j \in 1..(k - 1) : j \in DOMAIN hp

\* yaml.Unmarshal into a Config (config.go 59): the profile with its stop
\* list decoded into a backing array of its own.  The pair <<Config, heap>>.
Decode(y, hp) ==
    LET d == DecodeStrings(y.StopWords, FreshArr(hp))
    IN  << [y EXCEPT !.StopWords = d[1]],
           IF d[1].arr = 0 THEN hp
           ELSE [k \in (DOMAIN hp) \cup {d[1].arr} |->
                    IF k = d[1].arr THEN d[2] ELSE hp[k]] >>

\* yaml.Unmarshal into a ConfigFile (config.go 46): every profile of the
\* list decoded, from entry k on.  The pair <<Seq(Config), heap>>.
RECURSIVE DecodeAll(_, _, _)
DecodeAll(ys, hp, k) ==
    IF k > Len(ys) THEN << <<>>, hp >>
    ELSE LET d == Decode(ys[k], hp)
             r == DecodeAll(ys, d[2], k + 1)
         IN  << <<d[1]>> \o r[1], r[2] >>

\* faulty assignment: the fields the new profile leaves zero keep the value
\* of the entry that is replaced
PutMerged(st, c) ==
    [k \in (DOMAIN st) \cup {c.Name} |->
        IF k # c.Name THEN st[k]
        ELSE IF k \notin DOMAIN st THEN c
        ELSE [c EXCEPT !.OpenAIRequest =
                 [f \in DOMAIN c.OpenAIRequest |->
                     IF c.OpenAIRequest[f] = ZeroRequest[f]
                     THEN st[k].OpenAIRequest[f] ELSE c.OpenAIRequest[f]]]]

\* cm[c.Name] = *c (config.go 72, 83, 101): the entry of that name is
\* replaced whole, whatever the name
Put(st, c) ==
    [k \in (DOMAIN st) \cup {c.Name} |-> IF k = c.Name THEN c ELSE st[k]]

\* the loop of LoadConfig over c.Configs from entry k on (config.go 82-84)
RECURSIVE PutAll(_, _, _)
PutAll(st, cs, k) ==
    IF k > Len(cs) THEN st ELSE PutAll(Put(st, cs[k]), cs, k + 1)

\* ConfigMerger.LoadConfigFile (config.go 66-74): <<store, heap, error>>
LoadConfigFile(st, hp, fs, name) ==
    IF ~ReadOK(fs, name) THEN << st, hp, "cannot read config file" >>
    ELSE LET d == Decode(FileAt(fs, name).top, hp)
         IN  << Put(st, d[1]), d[2], "" >>

\* ConfigMerger.LoadConfig (config.go 76-86): <<store, heap, error>>
LoadConfig(st, hp, fs, name) ==
    IF ~ReadOK(fs, name) THEN << st, hp, "cannot read config file" >>
    ELSE LET d == DecodeAll(FileAt(fs, name).configs, hp, 1)
         IN  << PutAll(st, d[1], 1), d[2], "" >>

\* the loop of LoadConfigs over the directory entries from entry k on
\* (config.go 94-103): <<store, heap>>
RECURSIVE ScanFrom(_, _, _, _)
ScanFrom(st, hp, fs, k) ==
    IF k > Len(FileOrder) THEN << st, hp >>
    ELSE LET name == FileOrder[k]
         IN  IF StatOK(fs, name) /\ HasYamlMarker(name) /\ ReadOK(fs, name)
             THEN LET d == Decode(FileAt(fs, name).top, hp)
                  IN  ScanFrom(Put(st, d[1]), d[2], fs, k + 1)
             ELSE ScanFrom(st, hp, fs, k + 1)

\* faulty scan: a candidate file that cannot be read or parsed fails the call
LoadConfigsStrict(st, hp, fs, canList) ==
    IF ~canList THEN << st, hp, "readdir" >>
    ELSE IF \E k \in 1..Len(FileOrder) :
               /\ StatOK(fs, FileOrder[k]) /\ HasYamlMarker(FileOrder[k])
               /\ ~ReadOK(fs, FileOrder[k])
         THEN << st, hp, "cannot read config file" >>
         ELSE LET r == ScanFrom(st, hp, fs, 1) IN << r[1], r[2], "" >>

\* ConfigMerger.LoadConfigs (config.go 88-106): <<store, heap, error>>
LoadConfigs(st, hp, fs, canList) ==
    IF ~canList THEN << st, hp, "readdir" >>
    ELSE LET r == ScanFrom(st, hp, fs, 1) IN << r[1], r[2], "" >>

(***************************************************************************)
(* Text.                                                                   *)
(***************************************************************************)
\* a sequence of one-character strings as a string
RECURSIVE Str(_)
Str(cs) == IF cs = <<>> THEN "" ELSE cs[1] \o Str(Tail(cs))

\* strings.TrimLeft(s, cutset): every leading character of the cutset goes
RECURSIVE TrimLeft(_, _)
TrimLeft(t, cutset) ==
    IF t # <<>> /\ t[1] \in cutset THEN TrimLeft(Tail(t), cutset) ELSE t

\* the cutset of strings.TrimLeft(..., "Bearer ") (openai.go 160)
BearerCutset == {"B", "e", "a", "r", " "}

HasPrefix(t, p) == Len(p) <= Len(t) /\ SubSeq(t, 1, Len(p)) = p

\* strings.TrimPrefix
TrimPrefix(t, p) == IF HasPrefix(t, p) THEN SubSeq(t, Len(p) + 1, Len(t)) ELSE t

WhiteSpace == {" ", "\n", "\t"}

RECURSIVE TrimRight(_, _)
TrimRight(t, cutset) ==
    IF t # <<>> /\ t[Len(t)] \in cutset
    THEN TrimRight(SubSeq(t, 1, Len(t) - 1), cutset) ELSE t

\* strings.TrimSpace
TrimSpace(t) == TrimRight(TrimLeft(t, WhiteSpace), WhiteSpace)

\* regexp.MustCompile(c) returns (does not panic).  The patterns of the
\* model are literals, or hold an unclosed "(" and do not compile.
ValidPattern(c) == \A k \in 1..Len(c) : c[k] # "("

\* reg.ReplaceAllString(t, "") for the matcher of a literal pattern: the
\* leftmost non-overlapping matches are removed
RECURSIVE ReplaceAllString(_, _)
ReplaceAllString(t, c) ==
    IF t = <<>> \/ c = <<>> THEN t
    ELSE IF HasPrefix(t, c)
         THEN ReplaceAllString(SubSeq(t, Len(c) + 1, Len(t)), c)
         ELSE <<t[1]>> \o ReplaceAllString(Tail(t), c)

\* the loop over config.TrimSpace from entry k on (openai.go 282-284)
RECURSIVE TrimAll(_, _, _)
TrimAll(t, cs, k) ==
    IF k > Len(cs) THEN t
    ELSE TrimAll(TrimSpace(TrimPrefix(t, cs[k])), cs, k + 1)

(***************************************************************************)
(* Config resolution.                                                      *)
(***************************************************************************)
\* the bearer value (openai.go 160)
Bearer(authorization) == Str(TrimLeft(authorization, BearerCutset))

\* faulty selection: the request's model field ahead of the bearer value
SelectModelBodyFirst(input, authorization, exists, models) ==
    LET bearer == Bearer(authorization)
        bearerExists == bearer # "" /\ exists
    IN  IF input.Model # "" THEN [ok |-> TRUE, modelFile |-> input.Model]
        ELSE IF bearerExists THEN [ok |-> TRUE, modelFile |-> bearer]
        ELSE IF Len(models) > 0 THEN [ok |-> TRUE, modelFile |-> models[1]]
        ELSE [ok |-> FALSE, modelFile |-> ""]

\* faulty selection: an empty model list is not an error and the request
\* goes on without a model
SelectModelNoFail(input, authorization, exists, models) ==
    LET bearer == Bearer(authorization)
        bearerExists == bearer # "" /\ exists
    IN  IF bearerExists THEN [ok |-> TRUE, modelFile |-> bearer]
        ELSE IF input.Model = "" /\ Len(models) > 0
             THEN [ok |-> TRUE, modelFile |-> models[1]]
             ELSE [ok |-> TRUE, modelFile |-> input.Model]

\* the effective model identifier (openai.go 154-178); "" with ok FALSE is
\* the return of "no model specified".  exists is loader.ExistsInModelPath
\* of the bearer value, models what loader.ListModels returned.
SelectModel(input, authorization, exists, models) ==
    LET bearer == Bearer(authorization)
        bearerExists == bearer # "" /\ exists
        first == IF input.Model = "" /\ ~bearerExists
                 THEN IF Len(models) > 0
                      THEN [ok |-> TRUE, modelFile |-> models[1]]
                      ELSE [ok |-> FALSE, modelFile |-> ""]
                 ELSE [ok |-> TRUE, modelFile |-> input.Model]
    IN  IF ~first.ok THEN first
        ELSE IF bearerExists THEN [ok |-> TRUE, modelFile |-> bearer]
        ELSE first

\* faulty merge: top_k and the seed are copied from the request even when
\* the request leaves them zero
UpdateScalarsClobber(config, input) ==
    LET r == config.OpenAIRequest
        q == [r EXCEPT
                !.Echo = IF input.Echo THEN input.Echo ELSE r.Echo,
                !.TopK = input.TopK,
                !.TopP = IF input.TopP # 0 THEN input.TopP ELSE r.TopP,
                !.Temperature = IF input.Temperature # 0 THEN input.Temperature
                                ELSE r.Temperature,
                !.Maxtokens = IF input.Maxtokens # 0 THEN input.Maxtokens
                              ELSE r.Maxtokens,
                !.RepeatPenalty = IF input.RepeatPenalty # 0 THEN input.RepeatPenalty
                                  ELSE r.RepeatPenalty,
                !.Keep = IF input.Keep # 0 THEN input.Keep ELSE r.Keep,
                !.Batch = IF input.Batch # 0 THEN input.Batch ELSE r.Batch,
                !.IgnoreEOS = IF input.IgnoreEOS THEN input.IgnoreEOS ELSE r.IgnoreEOS,
                !.Seed = input.Seed]
    IN  [config EXCEPT !.OpenAIRequest = q,
                       !.F16 = IF input.F16 THEN input.F16 ELSE config.F16]

\* the scalar assignments of updateConfig (openai.go 95-111, 117-139)
UpdateScalars(config, input) ==
    LET r == config.OpenAIRequest
        q == [r EXCEPT
                !.Echo = IF input.Echo THEN input.Echo ELSE r.Echo,
                !.TopK = IF input.TopK # 0 THEN input.TopK ELSE r.TopK,
                !.TopP = IF input.TopP # 0 THEN input.TopP ELSE r.TopP,
                !.Temperature = IF input.Temperature # 0 THEN input.Temperature
                                ELSE r.Temperature,
                !.Maxtokens = IF input.Maxtokens # 0 THEN input.Maxtokens
                              ELSE r.Maxtokens,
                !.RepeatPenalty = IF input.RepeatPenalty # 0 THEN input.RepeatPenalty
                                  ELSE r.RepeatPenalty,
                !.Keep = IF input.Keep # 0 THEN input.Keep ELSE r.Keep,
                !.Batch = IF input.Batch # 0 THEN input.Batch ELSE r.Batch,
                !.IgnoreEOS = IF input.IgnoreEOS THEN input.IgnoreEOS ELSE r.IgnoreEOS,
                !.Seed = IF input.Seed # 0 THEN input.Seed ELSE r.Seed]
    IN  [config EXCEPT !.OpenAIRequest = q,
                       !.F16 = IF input.F16 THEN input.F16 ELSE config.F16]

\* faulty merge: the stop value replaces the stop list
UpdateStopReplace(hp, stopWords, input, fresh) ==
    IF input.Stop # "" THEN AppendSlice(hp, NilSlice, input.Stop, fresh)
    ELSE << stopWords, hp >>

\* the stop value of updateConfig (openai.go 113-115): <<header, heap>>
UpdateStop(hp, stopWords, input, fresh) ==
    IF input.Stop # "" THEN AppendSlice(hp, stopWords, input.Stop, fresh)
    ELSE << stopWords, hp >>

\* updateConfig (openai.go 94-140): <<Config, heap>>
updateConfig(config, input, hp, fresh) ==
    LET s == UpdateStop(hp, config.StopWords, input, fresh)
    IN  << [UpdateScalars(config, input) EXCEPT !.StopWords = s[1]], s[2] >>

\* faulty forcing: the server-wide values are assigned whatever they are
ApplyForcedAlways(config, threads, ctx, f16) ==
    [config EXCEPT !.Threads = threads, !.ContextSize = ctx, !.F16 = f16]

\* the server-wide values applied after updateConfig (openai.go 201-209)
ApplyForced(config, threads, ctx, f16) ==
    [config EXCEPT
        !.Threads = IF threads # 0 THEN threads ELSE config.Threads,
        !.ContextSize = IF ctx # 0 THEN ctx ELSE config.ContextSize,
        !.F16 = IF f16 THEN TRUE ELSE config.F16]

\* the profile resolution starts from (openai.go 188-196)
StartingConfig(st, modelFile) ==
    IF modelFile \in DOMAIN st THEN st[modelFile]
    ELSE [ZeroConfig EXCEPT !.OpenAIRequest = defaultRequest(modelFile)]

\* config.Roles[role]; a missing key reads as ""
RoleLabel(config, role) ==
    IF role \in DOMAIN config.Roles THEN config.Roles[role] ELSE <<>>

\* the chat prompt (openai.go 215-226) from message k on: each message as
\* label, a space and its content, joined by newlines
RECURSIVE ChatPrompt(_, _, _)
ChatPrompt(config, messages, k) ==
    IF k > Len(messages) THEN <<>>
    ELSE LET lab == RoleLabel(config, messages[k].Role)
             r == IF lab = <<>> THEN messages[k].Role ELSE lab
             line == r \o <<" ">> \o messages[k].Content
         IN  IF k = Len(messages) THEN line
             ELSE line \o <<"\n">> \o ChatPrompt(config, messages, k + 1)

\* predInput before templating (openai.go 213-227)
PredInput(config, input, chat) ==
    IF chat THEN ChatPrompt(config, input.Messages, 1) ELSE input.Prompt

\* the template key (openai.go 229-236)
TemplateFile(config, chat) ==
    IF config.TemplateConfig.Completion # "" /\ ~chat
    THEN config.TemplateConfig.Completion
    ELSE IF config.TemplateConfig.Chat # "" /\ chat
         THEN config.TemplateConfig.Chat
         ELSE config.OpenAIRequest.Model

\* faulty templating: the expander's text is taken whether or not it failed
TemplatedAlways(raw, t) == t.text

\* predInput after templating (openai.go 239-245): the expanded text when
\* the expander returned no error, the input as it was otherwise
Templated(raw, t) == IF t.err THEN raw ELSE t.text

\* the number of samples asked of the loop (openai.go 249-253)
SampleCount(input) == IF input.N = 0 THEN 1 ELSE input.N

(***************************************************************************)
(* Collaborators of the handler that live outside api/: the model loader   *)
(* (pkg/model) and the inference binding.  Their answers are the           *)
(* environment's: loader holds what ListModels returns, the identifiers    *)
(* ExistsInModelPath accepts and the template keys TemplatePrefix finds.   *)
(***************************************************************************)
\* loader.ExistsInModelPath(s)
ExistsInModelPath(ld, s) == s \in ld.existing

\* loader.ListModels(); an error is dropped by the caller and reads as no
\* models (openai.go 165)
ListModels(ld) == ld.models

\* loader.TemplatePrefix(key, {Input}): the text of the template with the
\* input in its place, or an error when no template of that key exists
TemplatePrefix(ld, key, text) ==
    IF key \in ld.templates THEN [err |-> FALSE, text |-> <<"T">> \o text]
    ELSE [err |-> TRUE, text |-> <<>>]

\* the samples the inference callable may produce
Samples == { <<"a", "b">>, <<"b", " ">> }

\* the errors ModelInference may return instead of the callable ("" none)
CreateErrors == {"", "load"}

\* the errors an invocation of the callable may return ("" none)
PredictErrors == {"", "oom"}

(***************************************************************************)
(* State.                                                                  *)
(***************************************************************************)
VARIABLES
    store,      \* cm: the ConfigMerger shared by every request
    heap,       \* backing arrays of the StopWords slices
    files,      \* the model directory
    listable,   \* whether os.ReadDir of the directory succeeds
    loader,     \* the model loader's answers
    server,     \* threads, ctx, f16 given to openAIEndpoint
    frame,      \* per worker: the handler's position and locals
    cutstrings, \* the pattern cache (openai.go 142)
    mu,         \* the worker holding the mutex (openai.go 143), 0 if free
    compiles,   \* per pattern, how often a matcher was inserted
    crashed,    \* the process was ended by a fatal error or a panic
    received,   \* requests received so far
    loads,      \* load operations called so far
    loadErr     \* the error of the last load operation called directly

vars == << store, heap, files, listable, loader, server, frame, cutstrings,
           mu, compiles, crashed, received, loads, loadErr >>

Workers == {1, 2}

\* no response yet
NoReturn == [kind |-> "none", err |-> "", Model |-> "", Choices |-> <<>>]
\* the handler returned an error
ErrorReturn(e) == [kind |-> "error", err |-> e, Model |-> "", Choices |-> <<>>]
\* c.JSON(OpenAIResponse{...}) (openai.go 297-300)
Response(model, choices) ==
    [kind |-> "response", err |-> "", Model |-> model, Choices |-> choices]

NoMatcher == [pattern |-> <<>>, id |-> 0]

\* a worker that handles no request
IdleFrame ==
    [pc |-> "idle", input |-> ZeroRequest, authorization |-> <<>>,
     chat |-> FALSE, modelFile |-> "", pending |-> <<>>, k |-> 0,
     config |-> ZeroConfig, predInput |-> <<>>, n |-> 0, i |-> 0,
     prediction |-> <<>>, cut |-> 0, reg |-> NoMatcher, ok |-> FALSE,
     predFunc |-> FALSE, bound |-> <<>>, calls |-> <<>>, result |-> <<>>,
     ret |-> NoReturn]

\* the backing arrays some slice header still points to
Refs(st, fr) ==
    ({st[k].StopWords.arr : k \in DOMAIN st}
       \cup {fr[w].config.StopWords.arr : w \in Workers}
       \cup UNION {{fr[w].pending[k].StopWords.arr : k \in 1..Len(fr[w].pending)} :
                      w \in Workers}) \ {0}

\* the heap without the arrays nothing points to
Collect(hp, st, fr) == [a \in (DOMAIN hp) \cap Refs(st, fr) |-> hp[a]]

(***************************************************************************)
(* Environments the behaviours start from.                                 *)
(***************************************************************************)
\* a directory from the contents of its four names, in FileOrder
Dir(cfg, bin, m1, m2) ==
    (FileOrder[1] :> cfg) @@ (FileOrder[2] :> bin) @@ (FileOrder[3] :> m1)
        @@ (FileOrder[4] :> m2)

\* a profile whose second cut-string does not compile
BadCutProfile(name, model, stops) ==
    [FullProfile(name, model, stops) EXCEPT !.Cutstrings = << <<"a">>, <<"(">> >>]

\* a configuration file with a full profile, a multi-profile companion of
\* m1, the model binary
DirPlain ==
    Dir(Single(FullProfile("gpt", "m1", <<"a", NULL>>)), Malformed,
        Multi(<< YamlProfile("m1", "m1", <<"a">>) >>), Absent)

\* a nameless profile, a companion of m1 that is not YAML, a companion of
\* m2 that cannot be read
DirBroken ==
    Dir(Single(YamlProfile("", "m1", <<"b">>)), Single(YamlProfile("bin", "m1", <<>>)),
        Malformed, Unreadable)

\* a companion of m1 with a nameless and a named profile, a companion of m2
\* in the single-profile layout
DirMixed ==
    Dir(Multi(<< YamlProfile("gpt", "m2", <<>>), YamlProfile("m1", "m2", <<"b">>) >>),
        Absent,
        Multi(<< YamlProfile("", "m1", <<>>), BadCutProfile("m1", "m1", <<"a", NULL>>) >>),
        Single(FullProfile("m2", "m2", <<"a", "b">>)))

Dirs == {DirPlain, DirBroken, DirMixed}

\* two configuration files that carry the name gpt with different
\* contents, a well-formed file without the marker, a file that is not YAML
DirScan ==
    Dir(Single(FullProfile("gpt", "m1", <<"a">>)), Single(YamlProfile("bin", "m1", <<>>)),
        Malformed, Single(YamlProfile("gpt", "m2", <<"b", NULL>>)))

LoaderFull ==
    [models |-> <<"m1", "m2">>, existing |-> {"m1", "m2", "gpt"},
     templates |-> {"m1", "ct"}]
LoaderEmpty == [models |-> <<>>, existing |-> {}, templates |-> {}]

ServerPlain == [threads |-> 0, ctx |-> 0, f16 |-> FALSE]
ServerForced == [threads |-> 4, ctx |-> 512, f16 |-> TRUE]

\* authorization headers: none, "Bearer m2", "gpt" without a scheme, and a
\* key that names no model
Headers ==
    { <<>>, <<"B", "e", "a", "r", "e", "r", " ", "m", "2">>, <<"g", "p", "t">>,
      <<"B", "e", "a", "r", "e", "r", " ", "s", "k">> }

\* a request for a model with the given stop value and sample count
Req(model, stop, count) ==
    [ZeroRequest EXCEPT !.Model = model, !.Stop = stop, !.N = count,
                        !.Prompt = <<"a", " ">>,
                        !.Messages = << [Role |-> <<"u">>, Content |-> <<"a">>],
                                        [Role |-> <<"s">>, Content |-> <<"b">>] >>]

\* the generation parameters updateConfig copies
Params == {"Echo", "TopP", "TopK", "Temperature", "Maxtokens", "Batch", "F16",
           "IgnoreEOS", "RepeatPenalty", "Keep", "Seed"}

\* the request with every generation parameter set
AllSet(r) ==
    [r EXCEPT !.Echo = TRUE, !.TopP = 3, !.TopK = 10, !.Temperature = 4,
              !.Maxtokens = 64, !.Batch = 16, !.F16 = TRUE, !.IgnoreEOS = TRUE,
              !.RepeatPenalty = 12, !.Keep = 5, !.Seed = 9]

\* the request with the parameters of ps set and the others zero
WithSet(r, ps) == [f \in DOMAIN r |-> IF f \in ps THEN AllSet(r)[f] ELSE r[f]]

\* requests that set none, all, exactly one, or all but one parameter
ParamVariants(r) ==
    {WithSet(r, {}), WithSet(r, Params)}
        \cup {WithSet(r, {f}) : f \in Params}
        \cup {WithSet(r, Params \ {f}) : f \in Params}

\* a call: the request body, the authorization header, the endpoint
Call(input, authorization, chat) ==
    [input |-> input, authorization |-> authorization, chat |-> chat]

(***************************************************************************)
(* The handler returned by openAIEndpoint, one step per access to shared   *)
(* state or call of a collaborator.  Each worker runs one request at a     *)
(* time; the server starts a worker per request.                           *)
(***************************************************************************)
Running == ~crashed

\* the handler of worker w ends with ret
Return(f, ret) == [f EXCEPT !.pc = "done", !.ret = ret]

\* a request arrives and c.BodyParser succeeds (openai.go 149-157)
Receive(w, calls) ==
    /\ Running /\ frame[w].pc = "idle" /\ received < MaxRequests
    /\ \E c \in calls :
          frame' = [frame EXCEPT ![w] =
                       [IdleFrame EXCEPT !.pc = "select", !.input = c.input,
                                         !.authorization = c.authorization,
                                         !.chat = c.chat]]
    /\ received' = received + 1
    /\ UNCHANGED << store, heap, files, listable, loader, server, cutstrings, mu,
                    compiles, crashed, loads, loadErr >>

\* a request arrives and c.BodyParser fails (openai.go 151-153)
ReceiveBad(w) ==
    /\ Running /\ frame[w].pc = "idle" /\ received < MaxRequests
    /\ frame' = [frame EXCEPT ![w] = Return(IdleFrame, ErrorReturn("bodyparser"))]
    /\ received' = received + 1
    /\ UNCHANGED << store, heap, files, listable, loader, server, cutstrings, mu,
                    compiles, crashed, loads, loadErr >>

\* model selection (openai.go 154-178)
Select(w) ==
    /\ Running /\ frame[w].pc = "select"
    /\ LET f == frame[w]
           r == SelectModel(f.input, f.authorization,
                            ExistsInModelPath(loader, Bearer(f.authorization)),
                            ListModels(loader))
       IN  frame' = [frame EXCEPT ![w] =
                        IF r.ok THEN [f EXCEPT !.pc = "stat", !.modelFile = r.modelFile]
                        ELSE Return(f, ErrorReturn("no model specified"))]
    /\ UNCHANGED << store, heap, files, listable, loader, server, cutstrings, mu,
                    compiles, crashed, received, loads, loadErr >>

\* os.Stat of the companion file (openai.go 181-182)
Stat(w) ==
    /\ Running /\ frame[w].pc = "stat"
    /\ frame' = [frame EXCEPT ![w].pc =
                    IF StatOK(files, ModelConfigName(frame[w].modelFile))
                    THEN "read" ELSE "lookup"]
    /\ UNCHANGED << store, heap, files, listable, loader, server, cutstrings, mu,
                    compiles, crashed, received, loads, loadErr >>

\* faulty load: a companion file without profiles fails the request too
LoadFailsOnEmpty(fs, name) ==
    ~ReadOK(fs, name) \/ FileAt(fs, name).configs = <<>>

\* ReadConfigFile returns an error, the request fails (config.go 77-80,
\* openai.go 183-185)
LoadFails(fs, name) == ~ReadOK(fs, name)

\* cm.LoadConfig up to its loop: ReadConfigFile (openai.go 183-185,
\* config.go 77-80)
Read(w) ==
    /\ Running /\ frame[w].pc = "read"
    /\ LET f == frame[w]
           name == ModelConfigName(f.modelFile)
           d == DecodeAll(FileAt(files, name).configs, heap, 1)
           g == IF LoadFails(files, name)
                THEN Return(f, ErrorReturn("failed loading model config"))
                ELSE [f EXCEPT !.pending = d[1], !.k = 1,
                               !.pc = IF Len(d[1]) = 0 THEN "lookup" ELSE "put"]
           fr == [frame EXCEPT ![w] = g]
       IN  /\ frame' = fr
           /\ heap' = IF LoadFails(files, name) THEN heap ELSE Collect(d[2], store, fr)
    /\ UNCHANGED << store, files, listable, loader, server, cutstrings, mu,
                    compiles, crashed, received, loads, loadErr >>

\* another worker is about to read or write the map while w writes it
WriteRaces(w) == \E v \in Workers \ {w} : frame[v].pc \in {"put", "lookup"}

\* another worker is about to write the map while w reads it
ReadRaces(w) == \E v \in Workers \ {w} : frame[v].pc = "put"

\* what an access to the map may do: unsynchronized with another worker's
\* write, the runtime may end the process with a fatal error
Outcomes(race) == IF race THEN {"done", "fatal"} ELSE {"done"}

\* one round of the loop of LoadConfig: cm[cc.Name] = *cc (config.go 82-84)
PutEntry(w) ==
    /\ Running /\ frame[w].pc = "put"
    /\ \E o \in Outcomes(WriteRaces(w)) :
          IF o = "fatal"
          THEN crashed' = TRUE /\ UNCHANGED << store, heap, frame >>
          ELSE LET f == frame[w]
                   st == Put(store, f.pending[f.k])
                   g == IF f.k < Len(f.pending) THEN [f EXCEPT !.k = f.k + 1]
                        ELSE [f EXCEPT !.pending = <<>>, !.k = 0, !.pc = "lookup"]
                   fr == [frame EXCEPT ![w] = g]
               IN  /\ store' = st
                   /\ frame' = fr
                   /\ heap' = Collect(heap, st, fr)
                   /\ UNCHANGED crashed
    /\ UNCHANGED << files, listable, loader, server, cutstrings, mu, compiles,
                    received, loads, loadErr >>

\* cfg, exists := cm[modelFile] and the choice of the starting profile
\* (openai.go 188-196)
Lookup(w) ==
    /\ Running /\ frame[w].pc = "lookup"
    /\ \E o \in Outcomes(ReadRaces(w)) :
          IF o = "fatal"
          THEN crashed' = TRUE /\ UNCHANGED << heap, frame >>
          ELSE LET f == frame[w]
                   fr == [frame EXCEPT ![w] =
                             [f EXCEPT !.config = StartingConfig(store, f.modelFile),
                                       !.pc = "update"]]
               IN  /\ frame' = fr
                   /\ heap' = Collect(heap, store, fr)
                   /\ UNCHANGED crashed
    /\ UNCHANGED << store, files, listable, loader, server, cutstrings, mu,
                    compiles, received, loads, loadErr >>

\* updateConfig, the forced values, the prompt, its template and the sample
\* count (openai.go 198-253)
Update(w) ==
    /\ Running /\ frame[w].pc = "update"
    /\ LET f == frame[w]
           u == updateConfig(f.config, f.input, heap, FreshArr(heap))
           c == ApplyForced(u[1], server.threads, server.ctx, server.f16)
           raw == PredInput(c, f.input, f.chat)
           t == TemplatePrefix(loader, TemplateFile(c, f.chat), raw)
           fr == [frame EXCEPT ![w] =
                     [f EXCEPT !.config = c,
                               !.predInput = Templated(raw, t),
                               !.n = SampleCount(f.input),
                               !.pc = "create"]]
       IN  /\ frame' = fr
           /\ heap' = Collect(u[2], store, fr)
    /\ UNCHANGED << store, files, listable, loader, server, cutstrings, mu,
                    compiles, crashed, received, loads, loadErr >>

\* where the sample loop goes with i samples done (openai.go 261)
LoopHead(n, i) == IF i < n THEN "predict" ELSE "respond"

\* ModelInference returns the callable or an error (openai.go 255-259);
\* bound is the input the callable was created with
Create(w) ==
    /\ Running /\ frame[w].pc = "create"
    /\ \E e \in CreateErrors :
          frame' = [frame EXCEPT ![w] =
                       IF e # "" THEN Return(frame[w], ErrorReturn(e))
                       ELSE [frame[w] EXCEPT !.predFunc = TRUE,
                                             !.bound = frame[w].predInput,
                                             !.i = 0,
                                             !.result = <<>>,
                                             !.pc = LoopHead(frame[w].n, 0)]]
    /\ UNCHANGED << store, heap, files, listable, loader, server, cutstrings, mu,
                    compiles, crashed, received, loads, loadErr >>

\* faulty post-processing: the cut-strings are passed over
CutHeadNone(config, cut) == "append"

\* where post-processing goes with the cut-strings before cut done
CutHead(config, cut) == IF cut <= Len(config.Cutstrings) THEN "lock" ELSE "append"

\* faulty loop: a failed invocation is skipped and the loop goes on
PredictFailedContinue(f, e) ==
    [f EXCEPT !.i = f.i + 1, !.pc = IF f.i + 1 < f.n THEN "predict" ELSE "respond"]

\* an invocation returned the error e (openai.go 263-265)
PredictFailed(f, e) == Return(f, ErrorReturn(e))

\* predFunc() and the echo (openai.go 262-269); calls records what each
\* invocation returned
Predict(w) ==
    /\ Running /\ frame[w].pc = "predict"
    /\ \E e \in PredictErrors, s \in Samples :
          LET f == frame[w]
              out == [err |-> e, text |-> IF e = "" THEN s ELSE <<>>]
              g == [f EXCEPT !.calls = Append(f.calls, out)]
          IN  frame' = [frame EXCEPT ![w] =
                           IF e # "" THEN PredictFailed(g, e)
                           ELSE [g EXCEPT !.prediction = IF f.config.OpenAIRequest.Echo
                                                         THEN f.predInput \o s ELSE s,
                                          !.cut = 1,
                                          !.pc = CutHead(f.config, 1)]]
    /\ UNCHANGED << store, heap, files, listable, loader, server, cutstrings, mu,
                    compiles, crashed, received, loads, loadErr >>

\* faulty mutex: Lock returns although another worker holds it
CanLockAlways(m) == TRUE

\* mu.Lock() returns (openai.go 272, 143): the mutex is free
CanLock(m) == m = 0

\* mu.Lock() (openai.go 272)
Lock(w) ==
    /\ Running /\ frame[w].pc = "lock" /\ CanLock(mu)
    /\ mu' = w
    /\ frame' = [frame EXCEPT ![w].pc = "check"]
    /\ UNCHANGED << store, heap, files, listable, loader, server, cutstrings,
                    compiles, crashed, received, loads, loadErr >>

\* reg, ok := cutstrings[c] (openai.go 273-274)
Check(w) ==
    /\ Running /\ frame[w].pc = "check"
    /\ LET f == frame[w]
           c == f.config.Cutstrings[f.cut]
           hit == c \in DOMAIN cutstrings
       IN  frame' = [frame EXCEPT ![w] =
                        [f EXCEPT !.ok = hit,
                                  !.reg = IF hit THEN cutstrings[c] ELSE NoMatcher,
                                  !.pc = IF hit THEN "unlock" ELSE "insert"]]
    /\ UNCHANGED << store, heap, files, listable, loader, server, cutstrings, mu,
                    compiles, crashed, received, loads, loadErr >>

\* the matcher the n-th compilation of pattern c yields
Matcher(c, n) == [pattern |-> c, id |-> n]

\* what a panic in the handler does: it ends the process, or a recover
\* middleware of the server turns it into an error of the request
PanicOutcomes == {"exit", "recovered"}

\* how often regexp.MustCompile was called on c
Compiled(cnt, c) == IF c \in DOMAIN cnt THEN cnt[c] ELSE 0

\* cutstrings[c] = regexp.MustCompile(c); reg = cutstrings[c]
\* (openai.go 275-276).  MustCompile panics on a pattern that does not
\* compile, before the map is written and with the mutex held.
Insert(w) ==
    /\ Running /\ frame[w].pc = "insert"
    /\ LET f == frame[w]
           c == f.config.Cutstrings[f.cut]
           m == Matcher(c, Compiled(compiles, c) + 1)
       IN  /\ compiles' = [p \in (DOMAIN compiles) \cup {c} |->
                              IF p = c THEN m.id ELSE compiles[p]]
           /\ IF ValidPattern(c)
              THEN /\ cutstrings' = [p \in (DOMAIN cutstrings) \cup {c} |->
                                        IF p = c THEN m ELSE cutstrings[p]]
                   /\ frame' = [frame EXCEPT ![w] = [f EXCEPT !.reg = m, !.pc = "unlock"]]
                   /\ UNCHANGED crashed
              ELSE \E o \in PanicOutcomes :
                      /\ crashed' = (o = "exit")
                      /\ frame' = IF o = "exit" THEN frame
                                  ELSE [frame EXCEPT ![w] = Return(f, ErrorReturn("panic"))]
                      /\ UNCHANGED cutstrings
    /\ UNCHANGED << store, heap, files, listable, loader, server, mu, received,
                    loads, loadErr >>

\* mu.Unlock() and the removal of the matches (openai.go 278-279)
Unlock(w) ==
    /\ Running /\ frame[w].pc = "unlock"
    /\ mu' = 0
    /\ LET f == frame[w] IN
       frame' = [frame EXCEPT ![w] =
                    [f EXCEPT !.prediction = ReplaceAllString(f.prediction, f.reg.pattern),
                              !.cut = f.cut + 1,
                              !.pc = CutHead(f.config, f.cut + 1)]]
    /\ UNCHANGED << store, heap, files, listable, loader, server, cutstrings,
                    compiles, crashed, received, loads, loadErr >>

\* a choice of the response (openai.go 286-290)
Choice(chat, text) ==
    IF chat THEN [Role |-> "assistant", Content |-> text, Text |-> <<>>]
    ELSE [Role |-> "", Content |-> <<>>, Text |-> text]

\* the trim prefixes, the choice and the next round (openai.go 282-291)
AppendChoice(w) ==
    /\ Running /\ frame[w].pc = "append"
    /\ LET f == frame[w]
           text == TrimAll(f.prediction, f.config.TrimSpace, 1)
       IN  frame' = [frame EXCEPT ![w] =
                        [f EXCEPT !.prediction = text,
                                  !.result = Append(f.result, Choice(f.chat, text)),
                                  !.i = f.i + 1,
                                  !.pc = LoopHead(f.n, f.i + 1)]]
    /\ UNCHANGED << store, heap, files, listable, loader, server, cutstrings, mu,
                    compiles, crashed, received, loads, loadErr >>

\* faulty response: the model field is the effective model identifier
RespondResolved(w) ==
    /\ Running /\ frame[w].pc = "respond"
    /\ frame' = [frame EXCEPT ![w] =
                    Return(frame[w], Response(frame[w].modelFile, frame[w].result))]
    /\ UNCHANGED << store, heap, files, listable, loader, server, cutstrings, mu,
                    compiles, crashed, received, loads, loadErr >>

\* the response (openai.go 293-300)
Respond(w) ==
    /\ Running /\ frame[w].pc = "respond"
    /\ frame' = [frame EXCEPT ![w] =
                    Return(frame[w], Response(frame[w].input.Model, frame[w].result))]
    /\ UNCHANGED << store, heap, files, listable, loader, server, cutstrings, mu,
                    compiles, crashed, received, loads, loadErr >>

\* the worker of a finished request is free for the next one
Finish(w) ==
    /\ Running /\ frame[w].pc = "done" /\ received < MaxRequests
    /\ LET fr == [frame EXCEPT ![w] = IdleFrame]
       IN  frame' = fr /\ heap' = Collect(heap, store, fr)
    /\ UNCHANGED << store, files, listable, loader, server, cutstrings, mu,
                    compiles, crashed, received, loads, loadErr >>

\* the steps of the handler of worker w, its requests drawn from calls
Handler(w, calls) ==
    \/ Receive(w, calls)
    \/ ReceiveBad(w)
    \/ Select(w)
    \/ Stat(w)
    \/ Read(w)
    \/ PutEntry(w)
    \/ Lookup(w)
    \/ Update(w)
    \/ Create(w)
    \/ Predict(w)
    \/ Lock(w)
    \/ Check(w)
    \/ Insert(w)
    \/ Unlock(w)
    \/ AppendChoice(w)
    \/ Respond(w)
    \/ Finish(w)

(***************************************************************************)
(* Load operations called directly (at startup, before requests are        *)
(* served).                                                                *)
(***************************************************************************)
\* the state after a load operation returned r = <<store, heap, error>>
Loaded(r) ==
    /\ store' = r[1]
    /\ heap' = Collect(r[2], r[1], frame)
    /\ loadErr' = r[3]
    /\ loads' = loads + 1
    /\ UNCHANGED << files, listable, loader, server, frame, cutstrings, mu,
                    compiles, crashed, received >>

\* cm.LoadConfigFile(name)
CallLoadConfigFile ==
    /\ loads < MaxLoads
    /\ \E name \in FileNames : Loaded(LoadConfigFile(store, heap, files, name))

\* cm.LoadConfig(name)
CallLoadConfig ==
    /\ loads < MaxLoads
    /\ \E name \in FileNames : Loaded(LoadConfig(store, heap, files, name))

\* cm.LoadConfigs(path)
CallLoadConfigs ==
    /\ loads < MaxLoads
    /\ Loaded(LoadConfigs(store, heap, files, listable))

(***************************************************************************)
(* Specifications.                                                         *)
(***************************************************************************)
\* the requests of the sequential specification: model selection, the
\* generation parameters and the stop value, the sample count
SeqCalls ==
    {Call(Req(m, "", 1), h, FALSE) : m \in {"", "m1", "m2"}, h \in Headers}
      \cup {Call(r, <<>>, FALSE) :
               r \in UNION {ParamVariants(Req(m, st, 1)) :
                               m \in {"m1", "gpt", "m2"}, st \in {"", "x"}}}
      \cup {Call(Req(m, "", c), <<>>, ch) :
               m \in {"m1", "gpt"}, c \in (-1)..MaxSamples, ch \in BOOLEAN}

\* the requests of the concurrent specification
ConcCalls ==
    {Call(Req("m1", "x", 0), <<>>, FALSE), Call(Req("m1", "y", 0), <<>>, TRUE),
     Call(Req("gpt", "", 0), <<>>, FALSE)}

\* what is the same in every initial state
InitRest ==
    /\ frame = [w \in Workers |-> IdleFrame]
    /\ cutstrings = << >>
    /\ mu = 0
    /\ compiles = << >>
    /\ crashed = FALSE
    /\ received = 0
    /\ loads = 0
    /\ loadErr = ""

\* the store the server starts with: empty, or filled by a scan of the
\* model directory
Started(fs) ==
    LET r == LoadConfigs(EmptyStore, << >>, fs, TRUE)
    IN  { << EmptyStore, << >> >>, << r[1], r[2] >> }

\* concurrent requests
Init ==
    /\ files \in {DirPlain, DirMixed}
    /\ listable = TRUE
    /\ loader = LoaderFull
    /\ server = ServerPlain
    /\ \E s \in Started(files) : store = s[1] /\ heap = s[2]
    /\ InitRest

Next == \E w \in Workers : Handler(w, ConcCalls)

Spec == Init /\ [][Next]_vars

\* one request at a time, drawn from a wide set
InitSeq ==
    /\ files \in Dirs
    /\ listable = TRUE
    /\ loader \in {LoaderFull, LoaderEmpty}
    /\ server \in {ServerPlain, ServerForced}
    /\ \E s \in Started(files) : store = s[1] /\ heap = s[2]
    /\ InitRest

NextSeq == Handler(1, SeqCalls)

SpecSeq == InitSeq /\ [][NextSeq]_vars

\* the load operations alone
InitLoad ==
    /\ files \in Dirs \cup {DirScan}
    /\ listable \in BOOLEAN
    /\ loader = LoaderFull
    /\ server = ServerPlain
    /\ store = EmptyStore
    /\ heap = << >>
    /\ InitRest

NextLoad == CallLoadConfigFile \/ CallLoadConfig \/ CallLoadConfigs

SpecLoad == InitLoad /\ [][NextLoad]_vars

(***************************************************************************)
(* Properties.                                                             *)
(***************************************************************************)
\* the bearer value of the request of f names a model of the model path
BearerNamesModel(f) ==
    Bearer(f.authorization) # "" /\ Bearer(f.authorization) \in loader.existing

\* the handler of f has chosen its effective model identifier
ModelChosen(f) ==
    /\ f.pc \notin {"idle", "select"}
    /\ ~(f.pc = "done" /\ f.ret.err \in {"bodyparser", "no model specified"})

\* C1: the effective model identifier is the bearer value when that names
\* an existing model (also against a different model in the request body),
\* otherwise the request's model field when not empty, otherwise the first
\* model listed.
C1_ModelPrecedence ==
    \A w \in Workers :
        ModelChosen(frame[w]) =>
            frame[w].modelFile =
                IF BearerNamesModel(frame[w]) THEN Bearer(frame[w].authorization)
                ELSE IF frame[w].input.Model # "" THEN frame[w].input.Model
                ELSE loader.models[1]

\* C1 witness: the bearer value won against a different model in the body
C1_Witness ==
    \E w \in Workers :
        /\ ModelChosen(frame[w]) /\ BearerNamesModel(frame[w])
        /\ frame[w].input.Model \notin {"", Bearer(frame[w].authorization)}
        /\ frame[w].modelFile = Bearer(frame[w].authorization)

\* C2: no worker is about to write the store while another worker is about
\* to read or write it (the map has no lock, so two such accesses that are
\* enabled together are unsynchronized).
C2_StoreAccessExclusive ==
    \A w \in Workers : frame[w].pc = "put" => ~WriteRaces(w)

\* the zero value of a generation parameter
ZeroOf(p) == IF p \in {"Echo", "F16", "IgnoreEOS"} THEN FALSE ELSE 0

\* a generation parameter of a configuration; half-precision is the outer
\* field the handler reads and writes
ParamOf(config, p) == IF p = "F16" THEN config.F16 ELSE config.OpenAIRequest[p]

\* worker w takes the step from the starting profile to the resolved
\* configuration
Resolves(w) == frame[w].pc = "update" /\ frame'[w].pc = "create"

\* parameter p of the resolved configuration of w is the request's value
\* when that is not zero and the starting profile's otherwise
NonZeroWins(w, p) ==
    ParamOf(frame'[w].config, p) =
        IF frame[w].input[p] # ZeroOf(p) THEN frame[w].input[p]
        ELSE ParamOf(frame[w].config, p)

\* C3 as stated: every generation parameter of the resolved configuration
\* is the request's value when non-zero and the starting profile's when the
\* request leaves it zero.
C3_NonZeroWinsAll ==
    [][\A w \in Workers : Resolves(w) => \A p \in Params : NonZeroWins(w, p)]_vars

\* C3 amended: as stated for every parameter but half-precision; that one
\* is true when the server forces it, and otherwise the request's value
\* when true and the starting profile's when the request leaves it false.
C3_NonZeroWinsButForcedF16 ==
    [][\A w \in Workers : Resolves(w) =>
          /\ \A p \in Params \ {"F16"} : NonZeroWins(w, p)
          /\ IF server.f16 THEN frame'[w].config.F16 = TRUE
             ELSE NonZeroWins(w, "F16")]_vars

\* C3 witness: resolved from the stored full profile under forced
\* half-precision; a zero top_k kept the profile's 40, a set top_p won
C3_Witness ==
    \E w \in Workers :
        /\ frame[w].pc = "create" /\ server.f16 /\ ~frame[w].input.F16
        /\ frame[w].config.F16
        /\ frame[w].input.TopK = 0 /\ frame[w].config.OpenAIRequest.TopK = 40
        /\ frame[w].input.TopP = 3 /\ frame[w].config.OpenAIRequest.TopP = 3

\* C4: with a stop value the resolved stop list is the starting profile's
\* list followed by that value (one entry more, the old entries in order,
\* the new one last); without one it is the starting profile's list.
C4_StopAppended ==
    [][\A w \in Workers : Resolves(w) =>
          SliceSeq(heap', frame'[w].config.StopWords) =
              IF frame[w].input.Stop # ""
              THEN Append(SliceSeq(heap, frame[w].config.StopWords), frame[w].input.Stop)
              ELSE SliceSeq(heap, frame[w].config.StopWords)]_vars

\* C4 witness: the stop value "x" appended to a stored list of one entry
C4_Witness ==
    \E w \in Workers :
        /\ frame[w].pc = "create" /\ frame[w].input.Stop = "x"
        /\ SliceSeq(heap, frame[w].config.StopWords) = <<"a", "x">>

\* the text of a choice
ChoiceText(c) == IF c.Role = "assistant" THEN c.Content ELSE c.Text

\* the cut-strings of cs from entry k on removed from t, in list order
RECURSIVE CutAll(_, _, _)
CutAll(t, cs, k) ==
    IF k > Len(cs) THEN t ELSE CutAll(ReplaceAllString(t, cs[k]), cs, k + 1)

\* the text of the choice a sample yields under a resolved configuration
PostProcess(config, predInput, sample) ==
    TrimAll(CutAll(IF config.OpenAIRequest.Echo THEN predInput \o sample ELSE sample,
                   config.Cutstrings, 1),
            config.TrimSpace, 1)

\* C5: a request that returns a response has invoked the callable exactly N
\* times for its sample count N, once for a sample count of 0, and the
\* response has one choice per invocation, in the order of the invocations.
C5_SampleCount ==
    \A w \in Workers :
        (frame[w].pc = "done" /\ frame[w].ret.kind = "response") =>
            /\ Len(frame[w].calls) =
                  IF frame[w].input.N = 0 THEN 1 ELSE frame[w].input.N
            /\ Len(frame[w].ret.Choices) = Len(frame[w].calls)
            /\ \A j \in 1..Len(frame[w].ret.Choices) :
                  ChoiceText(frame[w].ret.Choices[j]) =
                      PostProcess(frame[w].config, frame[w].predInput,
                                  frame[w].calls[j].text)

\* C6: an invocation that returned an error is the last one of its request,
\* the request returned that error, and no response was emitted.
C6_FirstErrorAborts ==
    \A w \in Workers : \A j \in 1..Len(frame[w].calls) :
        frame[w].calls[j].err # "" =>
            /\ j = Len(frame[w].calls)
            /\ frame[w].pc = "done"
            /\ frame[w].ret = ErrorReturn(frame[w].calls[j].err)

\* C6 witness: the second invocation failed after one sample was assembled
C6_Witness ==
    \E w \in Workers :
        /\ Len(frame[w].calls) = 2 /\ frame[w].calls[2].err # ""
        /\ Len(frame[w].result) = 1 /\ frame[w].ret.kind = "error"

\* the request of f names no model and none is listed
NoModelCase(f) ==
    f.input.Model = "" /\ ~BearerNamesModel(f) /\ Len(loader.models) = 0

\* C7: a request without a model field and without a bearer value that
\* names an existing model, when no model is listed, ends at model selection
\* with the no-model error: the store is as before, no callable was created
\* or invoked, no response emitted, and the request does nothing afterwards.
C7_NoModelFails ==
    [][\A w \in Workers :
          /\ (frame[w].pc = "select" /\ NoModelCase(frame[w])
                 /\ frame'[w] # frame[w]) =>
                /\ frame'[w] = Return(frame[w], ErrorReturn("no model specified"))
                /\ ~frame'[w].predFunc /\ frame'[w].calls = <<>>
                /\ store' = store /\ heap' = heap
          /\ (frame[w].pc = "done" /\ frame[w].ret.err = "no model specified") =>
                /\ store' = store
                /\ frame'[w] \in {frame[w], IdleFrame}]_vars

\* C7 witness: a request failed with the no-model error
C7_Witness ==
    \E w \in Workers :
        /\ frame[w].pc = "done" /\ NoModelCase(frame[w])
        /\ frame[w].ret = ErrorReturn("no model specified")

\* the errors a request can return once its configuration is resolved:
\* those of the inference binding and of a recovered panic
LateErrors == (CreateErrors \cup PredictErrors \cup {"panic"}) \ {""}

Resolving(f) == f.pc \in {"stat", "read", "put", "lookup", "update"}

C9_NoEmptyName == "" \notin DOMAIN store

\* the pattern worker w is at in its cut-string loop
CutPattern(f) == f.config.Cutstrings[f.cut]

\* C10: MustCompile is called at most once per pattern, an entry of the
\* pattern cache is never replaced or removed, and a request about to use a
\* pattern holds the matcher the cache has for it.
C10_CompiledOnce ==
    [][/\ \A c \in DOMAIN compiles' : compiles'[c] <= 1
       /\ \A c \in DOMAIN cutstrings :
             c \in DOMAIN cutstrings' /\ cutstrings'[c] = cutstrings[c]
       /\ \A w \in Workers :
             frame'[w].pc = "unlock" =>
                /\ CutPattern(frame'[w]) \in DOMAIN cutstrings'
                /\ frame'[w].reg = cutstrings'[CutPattern(frame'[w])]]_vars

\* C10 witness: two requests hold the same matcher, one compiled it and the
\* other found it in the cache
C10_Witness ==
    /\ frame[1].reg # NoMatcher /\ frame[1].reg = frame[2].reg
    /\ frame[1].ok # frame[2].ok

\* C11: the text of every choice is the sample with the templated input put
\* in front when echo is on, then every cut-string removed in list order,
\* then every trim prefix stripped and the white space trimmed in list
\* order; the input put in front goes through the removal and the trimming.
C11_PostProcessOrder ==
    \A w \in Workers : \A j \in 1..Len(frame[w].result) :
        /\ j <= Len(frame[w].calls)
        /\ ChoiceText(frame[w].result[j]) =
              TrimAll(CutAll(IF frame[w].config.OpenAIRequest.Echo
                             THEN frame[w].predInput \o frame[w].calls[j].text
                             ELSE frame[w].calls[j].text,
                             frame[w].config.Cutstrings, 1),
                      frame[w].config.TrimSpace, 1)

\* C11 witness: echo on, the templated input "Ta " in front of the sample
\* "ab", the cut-string "a" removed from both
C11_Witness ==
    \E w \in Workers :
        /\ frame[w].pc = "done" /\ frame[w].ret.kind = "response"
        /\ Len(frame[w].ret.Choices) = 1
        /\ frame[w].config.OpenAIRequest.Echo
        /\ frame[w].config.Cutstrings = << <<"a">> >>
        /\ frame[w].predInput = <<"T", "a", " ">>
        /\ frame[w].calls[1].text = <<"a", "b">>
        /\ ChoiceText(frame[w].ret.Choices[1]) = <<"T", " ", "b">>


\* a stored profile with its stop list read through its slice header
Stored(c, hp) == [c EXCEPT !.StopWords = SliceSeq(hp, c.StopWords)]

\* a profile as written with the stop list it decodes to
Written(y) == [y EXCEPT !.StopWords = SelectSeq(y.StopWords, LAMBDA x : x # NULL)]

\* the positions in the listing of the well-formed files with the marker
Candidates(fs) ==
    {k \in 1..Len(FileOrder) :
        HasYamlMarker(FileOrder[k]) /\ ReadOK(fs, FileOrder[k])}

\* the profile a file of the listing defines when read as a single profile
ProfileAt(fs, k) == FileAt(fs, FileOrder[k]).top

\* the well-formed files with the marker whose profile has the name n
Naming(fs, n) == {k \in Candidates(fs) : ProfileAt(fs, k).Name = n}

\* the greatest element of a non-empty set of positions
Last(S) == CHOOSE k \in S : \A j \in S : j <= k

RECURSIVE ScanProfiles(_, _)
ScanProfiles(fs, k) ==
    IF k > Len(FileOrder) THEN <<>>
    ELSE (IF k \in Candidates(fs) THEN << ProfileAt(fs, k) >> ELSE <<>>)
             \o ScanProfiles(fs, k + 1)

\* the step left the store as a successful load carrying the profiles of
\* ys in this order must: each name carried holds in full the last profile
\* of that name, every other entry is as it was, no name went away
StoreAfter(ys) ==
    /\ \A n \in DOMAIN store : n \in DOMAIN store'
    /\ \A k \in 1..Len(ys) : ys[k].Name \in DOMAIN store'
    /\ \A n \in DOMAIN store' :
          LET S == {k \in 1..Len(ys) : ys[k].Name = n}
          IN  IF S # {} THEN Stored(store'[n], heap') = Written(ys[Last(S)])
              ELSE /\ n \in DOMAIN store
                   /\ Stored(store'[n], heap') = Stored(store[n], heap)

\* C13: every load operation, after any earlier ones, leaves under each
\* name it carries the whole profile it carries last for that name, no
\* field taken from the entry replaced, leaves every other entry as it was
\* and removes no name; a load that fails leaves the store as it was.
C13_StoreAfterLoads ==
    [][/\ \A name \in FileNames :
             Loaded(LoadConfigFile(store, heap, files, name)) =>
                 StoreAfter(IF ReadOK(files, name) THEN << FileAt(files, name).top >>
                            ELSE <<>>)
       /\ \A name \in FileNames :
             Loaded(LoadConfig(store, heap, files, name)) =>
                 StoreAfter(IF ReadOK(files, name) THEN FileAt(files, name).configs
                            ELSE <<>>)
       /\ CallLoadConfigs =>
             StoreAfter(IF listable THEN ScanProfiles(files, 1) ELSE <<>>)]_vars

\* C13 witness: the full profile gpt of cfg.yaml was replaced by the sparse
\* profile gpt of m2.yaml; top_k and the cut-strings of the old entry are
\* gone, the entry bin of an earlier load is still there
C13_Witness ==
    /\ files = DirScan /\ loads = 3 /\ DOMAIN store = {"gpt", "bin"}
    /\ store["gpt"].OpenAIRequest.Model = "m2"
    /\ store["gpt"].OpenAIRequest.TopK = 0 /\ store["gpt"].Cutstrings = <<>>
    /\ SliceSeq(heap, store["gpt"].StopWords) = <<"b">>


\* C14: the model field of every response is the model field of the request
\* body, also when the effective model identifier came from the bearer
\* value or from the first model listed.
C14_ResponseModel ==
    \A w \in Workers :
        (frame[w].pc = "done" /\ frame[w].ret.kind = "response") =>
            frame[w].ret.Model = frame[w].input.Model

\* C14 witness: a response to a request without a model field that was
\* served by the first model listed
C14_Witness ==
    \E w \in Workers :
        /\ frame[w].pc = "done" /\ frame[w].ret.kind = "response"
        /\ frame[w].input.Model = "" /\ frame[w].modelFile = "m1"
        /\ frame[w].ret.Model = "" /\ Len(frame[w].ret.Choices) = 1


\* C15: in the resolved configuration the thread count is the forced one
\* when that is not zero and the starting profile's otherwise, the context
\* size likewise, and half-precision is true when it is forced and
\* otherwise what the request (when true) or the starting profile gives; a
\* forced half-precision of false turns nothing off.
C15_ForcedLast ==
    [][\A w \in Workers : Resolves(w) =>
          /\ frame'[w].config.Threads =
                IF server.threads # 0 THEN server.threads ELSE frame[w].config.Threads
          /\ frame'[w].config.ContextSize =
                IF server.ctx # 0 THEN server.ctx ELSE frame[w].config.ContextSize
          /\ frame'[w].config.F16 =
                IF server.f16 THEN TRUE
                ELSE IF frame[w].input.F16 THEN TRUE ELSE frame[w].config.F16
          /\ (frame[w].config.F16 \/ frame[w].input.F16) => frame'[w].config.F16]_vars

\* C15 witness: the forced 4 threads and context size 512 replaced the 2
\* and 1024 of the stored profile
C15_Witness ==
    \E w \in Workers :
        /\ frame[w].pc = "create" /\ server = ServerForced
        /\ frame[w].modelFile \in DOMAIN store
        /\ store[frame[w].modelFile].Threads = 2
        /\ store[frame[w].modelFile].ContextSize = 1024
        /\ frame[w].config.Threads = 4 /\ frame[w].config.ContextSize = 512
        /\ frame[w].config.F16


\* the profiles a file defines, in either layout: the one of its top-level
\* keys when it has any, and those of its list
DefinedBy(file) ==
    (IF file.top # NoKeys THEN {file.top} ELSE {})
        \cup {file.configs[k] : k \in 1..Len(file.configs)}

\* C16: a request whose effective model identifier has a companion file
\* starts its resolution from a profile that file defines, not from an
\* older entry of the store or from the default profile.
C16_CompanionFirst ==
    \A w \in Workers :
        (frame[w].pc = "update"
            /\ StatOK(files, ModelConfigName(frame[w].modelFile))) =>
            \E y \in DefinedBy(FileAt(files, ModelConfigName(frame[w].modelFile))) :
                Stored(frame[w].config, heap) = Written(y)


\* the template key of a resolved configuration: the chat template in chat
\* mode and the completion template in completion mode when set, the model
\* identifier of the configuration otherwise
TemplateKey(config, chat) ==
    IF chat /\ config.TemplateConfig.Chat # "" THEN config.TemplateConfig.Chat
    ELSE IF ~chat /\ config.TemplateConfig.Completion # ""
         THEN config.TemplateConfig.Completion
         ELSE config.OpenAIRequest.Model

\* C17: the resolution step never fails the request; it leaves as input the
\* expanded text when the expander has the template of the key and the
\* un-templated input when the expander fails.  The callable is created
\* with that input, and that input is what echo puts in front of a sample.
C17_TemplateAbsenceNoError ==
    [][\A w \in Workers :
          /\ (frame[w].pc = "update" /\ frame'[w] # frame[w]) =>
                LET raw == PredInput(frame'[w].config, frame[w].input, frame[w].chat)
                    t == TemplatePrefix(loader, TemplateKey(frame'[w].config, frame[w].chat),
                                        raw)
                IN  /\ frame'[w].pc = "create" /\ frame'[w].ret = NoReturn
                    /\ frame'[w].predInput = IF t.err THEN raw ELSE t.text
          /\ (frame[w].pc = "create" /\ frame'[w].predFunc) =>
                frame'[w].bound = frame[w].predInput
          /\ frame[w].predFunc =>
                /\ frame'[w] # IdleFrame =>
                      /\ frame'[w].bound = frame[w].bound
                      /\ frame'[w].predInput = frame[w].bound
          /\ (frame[w].pc = "predict" /\ frame'[w].pc \in {"lock", "append"}
                 /\ frame[w].config.OpenAIRequest.Echo) =>
                frame'[w].prediction =
                    frame[w].bound \o frame'[w].calls[Len(frame'[w].calls)].text]_vars

\* C17 witness: chat mode, the chat template ch is set and the expander
\* does not have it; the request returned a response, the callable was
\* created with the un-templated chat prompt, echo on
C17_Witness ==
    \E w \in Workers :
        /\ frame[w].pc = "done" /\ frame[w].ret.kind = "response"
        /\ frame[w].chat /\ frame[w].config.TemplateConfig.Chat = "ch"
        /\ "ch" \notin loader.templates
        /\ frame[w].config.OpenAIRequest.Echo
        /\ frame[w].bound = <<"U", " ", "a", "\n", "s", " ", "b">>
        /\ frame[w].bound = PredInput(frame[w].config, frame[w].input, TRUE)


\* the request of f has its resolved configuration and is not finished
Resolved(f) ==
    f.pc \in {"create", "predict", "lock", "check", "insert", "unlock", "append",
              "respond"}

\* the stop list of a configuration as read through its slice header
StopList(config) == SliceSeq(heap, config.StopWords)

\* C18: the resolved stop list of every request that gave a stop value ends
\* with that value, whatever the requests that run beside it do.
C18_OwnStopLast ==
    \A w \in Workers :
        (Resolved(frame[w]) /\ frame[w].input.Stop # "") =>
            /\ StopList(frame[w].config) # <<>>
            /\ StopList(frame[w].config)[Len(StopList(frame[w].config))] =
                  frame[w].input.Stop


\* C19: a request that is finished, whether it returned a response or an
\* error, does not hold the mutex of the pattern cache.
C19_MutexReleased ==
    \A w \in Workers : frame[w].pc \in {"idle", "done"} => mu # w


\* C20: a request that returned a response has invoked the callable at
\* least once and the response has at least one choice.
C20_ResponseBacked ==
    \A w \in Workers :
        (frame[w].pc = "done" /\ frame[w].ret.kind = "response") =>
            /\ Len(frame[w].calls) >= 1
            /\ Len(frame[w].ret.Choices) >= 1


=============================================================================
